---- MODULE Spec2Model ----
(***************************************************************************)
(* SEIR contact-network simulator: ContactNetwork.py and Helper.py.        *)
(*                                                                         *)
(* A ContactNetwork owns a copy of a weighted undirected graph.  Every     *)
(* node carries a state and a time_changed_state, the graph carries the    *)
(* clock tau.  _update() scans the nodes, collects the pending state       *)
(* changes in a dict, applies them and advances tau.  The public methods   *)
(* seed a list of nodes as INFECTED and call _update() repeatedly.         *)
(*                                                                         *)
(* Probabilities, edge weights and distribution samples are rationals,     *)
(* written <<numerator, denominator>> with a positive denominator.  The    *)
(* probabilities and weights of the model are dyadic, and every float      *)
(* operation of the program on them rounds its result to the nearest       *)
(* float, with a significand of MantissaBits bits in place of the 53 bits  *)
(* of a float64.                                                           *)
(***************************************************************************)
EXTENDS Integers, Sequences, FiniteSets, TLC

(***************************************************************************)
(* Bounds of the model.                                                    *)
(***************************************************************************)
\* _update() is not called once tau has reached MaxTau
MaxTau == 3
\* longest infected_nodes list a caller passes
MaxSeedLen == 2
\* largest num_iterations a caller passes to collect_statistics
MaxIter == 2
\* longest list handed to unionProbability on its own
MaxEvents == 3
\* bits of the significand of a float
MantissaBits == 4

(***************************************************************************)
(* The graph handed to the constructor.                                    *)
(***************************************************************************)
\* the node keys of the graph
Nodes == {1, 2}
\* a key that is no node of the graph
UnknownNode == Cardinality(Nodes) + 1
\* the keys a caller may put in infected_nodes
Keys == Nodes \cup {UnknownNode}
\* graph.nodes(): the nodes in insertion order
NodeOrder == <<1, 2>>
\* the edges a graph of the model may have
AllEdges == {{1, 2}}
\* an edge whose attribute dict holds no 'weight'
NoWeight == <<0, 0>>
\* the edge weights the graphs of the model use
Weights == {<<1, 2>>, <<1, 1>>}
\* an edge-attribute map: the edges present, each with its weight or none
EdgeMaps == UNION {[E -> Weights \cup {NoWeight}] : E \in SUBSET AllEdges}

(***************************************************************************)
(* class State(Enum)                                                       *)
(***************************************************************************)
SUSCEPTIBLE == 0
INFECTED == 1
RECOVERED == 2
EXPOSED == 3

(***************************************************************************)
(* Rational arithmetic, as the program's float expressions use it.         *)
(***************************************************************************)
Zero == <<0, 1>>
One == <<1, 1>>
\* an integer as a rational
FromInt(i) == <<i, 1>>
\* a <= b
RLeq(a, b) == a[1] * b[2] <= b[1] * a[2]
\* a >= b
RGeq(a, b) == RLeq(b, a)
\* a = b as numbers
REq(a, b) == a[1] * b[2] = b[1] * a[2]
\* a * b
RMul(a, b) == <<a[1] * b[1], a[2] * b[2]>>
\* 1 - a
OneMinus(a) == <<a[2] - a[1], a[2]>>
RECURSIVE IPow(_, _)
\* b ** k for integers b and k >= 0, by repeated multiplication
IPow(b, k) == IF k = 0 THEN 1 ELSE b * IPow(b, k - 1)

\* a ** k for an integer k; x ** 0 is 1 for every x, 0 included, and a
\* negative k gives the reciprocal's power
RPow(a, k) ==
    IF k >= 0 THEN <<IPow(a[1], k), IPow(a[2], k)>>
    ELSE <<IPow(a[2], 0 - k), IPow(a[1], 0 - k)>>
\* max(a, b) and min(a, b)
RMax(a, b) == IF RGeq(a, b) THEN a ELSE b
RMin(a, b) == IF RLeq(a, b) THEN a ELSE b

RECURSIVE BitLength(_)
\* the number of binary digits of n >= 0
BitLength(n) == IF n <= 0 THEN 0 ELSE 1 + BitLength(n \div 2)

RECURSIVE Reduce(_)
\* a dyadic rational with its powers of two cancelled (x is a, taken once)
Reduce(a) ==
    CHOOSE r \in {IF x[2] > 1 /\ x[1] % 2 = 0 /\ x[2] % 2 = 0
                  THEN Reduce(<<x[1] \div 2, x[2] \div 2>>)
                  ELSE x : x \in {a}} : TRUE

\* the dyadic rational x >= 0 with the last s bits of its numerator rounded
\* away, to nearest, ties to even
RoundOff(x, s) ==
    LET q == x[1] \div IPow(2, s)
        r == x[1] % IPow(2, s)
        h == IPow(2, s - 1)
        m == IF r > h \/ (r = h /\ q % 2 = 1) THEN q + 1 ELSE q
    IN  Reduce(<<m * IPow(2, s), x[2]>>)

\* the float nearest to the dyadic rational a >= 0: its numerator keeps
\* MantissaBits significant bits (x is a, taken once)
Fl(a) ==
    CHOOSE r \in {IF BitLength(x[1]) <= MantissaBits THEN Reduce(x)
                  ELSE RoundOff(x, BitLength(x[1]) - MantissaBits) :
                  x \in {a}} : TRUE

(***************************************************************************)
(* Helper.Probability                                                      *)
(***************************************************************************)
RECURSIVE ProdFrom(_, _)
\* np.multiply.reduce: the running product p taken through the list e from
\* left to right, each product a float
ProdFrom(p, e) ==
    IF e = <<>> THEN p ELSE ProdFrom(Fl(RMul(p, Head(e))), Tail(e))

\* np.prod(e): the product of the list, 1.0 for the empty list
jointProbability(e) == ProdFrom(One, e)

\* a variant that adds the probabilities up
unionProbabilityBySum(e) ==
    LET acc[i \in 0..Len(e)] ==
            IF i = 0 THEN Zero
            ELSE Fl(<<acc[i - 1][1] * e[i][2] + e[i][1] * acc[i - 1][2],
                      acc[i - 1][2] * e[i][2]>>)
    IN  acc[Len(e)]

\* 1 - jointProbability([1-x for x in e])
unionProbability(e) ==
    Fl(OneMinus(jointProbability([i \in 1..Len(e) |-> Fl(OneMinus(e[i]))])))

(***************************************************************************)
(* Helper.Distribution.  np.random.normal can return any real; the model   *)
(* takes each draw from a small set of the values it can return.  Each     *)
(* sample function is the set of the values one call can return.           *)
(***************************************************************************)
\* values of np.random.normal(14, 1)
RecoveryDraws == {<<0, 1>>, <<3, 2>>, <<14, 1>>}
\* values of np.random.normal(0.97, 0.1)
ExposureDraws == {<<-1, 2>>, <<1, 2>>, <<3, 2>>}
\* values of np.random.normal(9, 2)
InfectionDraws == {<<0, 1>>, <<3, 2>>, <<9, 1>>}

\* return np.random.normal(14,1)
sampleRecoveryDistribution == RecoveryDraws
\* a variant without the clamp: return np.random.normal(0.97, 0.1)
sampleExposureUnclamped == ExposureDraws
\* return max(0, min(1, np.random.normal(0.97, 0.1)))
sampleExposureDistribution == {RMax(Zero, RMin(One, x)) : x \in ExposureDraws}
\* return np.random.normal(9,2)
sampleInfectionDistribution == InfectionDraws
\* the entry of a node that samples nothing (a RECOVERED node)
NoSample == <<0, 1>>

VARIABLES
    orig,     \* the caller's graph: its edge-attribute map
    origNodes,\* the caller's graph: its [tau, state, time_changed_state]
    built,    \* whether __init__ has run (self.graph exists)
    graph,    \* self.graph: [tau, state, time_changed_state, weight, own]
    pc,       \* "idle", or "stats" inside the loop of collect_statistics
    cs,       \* collect_statistics: [start, num_iterations, tau, stats]
    op,       \* the last operation: [name, error, stepped, infected_nodes]
    samples,  \* the per-node samples the last _update() used
    ret,      \* the dict the last _update() returned
    events,   \* the list e handed to Probability.unionProbability
    answer    \* what the functions of Probability returned for it

vars == <<orig, origNodes, built, graph, pc, cs, op, samples, ret, events, answer>>

(***************************************************************************)
(* self.graph                                                              *)
(***************************************************************************)
\* no graph yet: no node attribute and no graph attribute is set
NoGraph ==
    [tau |-> 0, state |-> <<>>, time_changed_state |-> <<>>, weight |-> <<>>,
     own |-> TRUE]

\* self.graph = graph: the simulator holds the caller's object
ShareGraph(g) == [NoGraph EXCEPT !.weight = g, !.own = FALSE]

\* graph.copy(): the simulator's own graph with the caller's edges and weights
\* (own: an object of its own, with attribute dicts of its own)
CopyGraph(g) == [NoGraph EXCEPT !.weight = g]

\* the attributes of a graph that has none (the caller's graph as it is built
\* in BondPercolationSEIRAirline_modified.py)
NoNodes == [tau |-> 0, state |-> <<>>, time_changed_state |-> <<>>]

\* the attributes of the caller's graph once the simulator's graph is G: its
\* own when G is a copy, those of G when G is the caller's object
Written(G, attrs) ==
    IF G.own THEN attrs
    ELSE [tau |-> G.tau, state |-> G.state,
          time_changed_state |-> G.time_changed_state]

\* self.graph.neighbors(node)
neighbors(G, node) == {n \in Nodes : {node, n} \in DOMAIN G.weight}

\* a variant that stamps the node with the time after the current one
ChangeNodeStateLate(G, node, state) ==
    [G EXCEPT
        !.state = [n \in DOMAIN G.state \cup {node} |->
                      IF n = node THEN state ELSE G.state[n]],
        !.time_changed_state = [n \in DOMAIN G.time_changed_state \cup {node} |->
                      IF n = node THEN G.tau + 1 ELSE G.time_changed_state[n]]]

\* self.graph.nodes[node]["state"] = state; ["time_changed_state"] = tau
\* (both attributes are created when the node has none)
_change_node_state(G, node, state) ==
    [G EXCEPT
        !.state = [n \in DOMAIN G.state \cup {node} |->
                      IF n = node THEN state ELSE G.state[n]],
        !.time_changed_state = [n \in DOMAIN G.time_changed_state \cup {node} |->
                      IF n = node THEN G.tau ELSE G.time_changed_state[n]]]

\* self.graph.nodes[node]["state"]
_get_node_state(G, node) == G.state[node]

(***************************************************************************)
(* ContactNetwork.__init__                                                 *)
(***************************************************************************)
RECURSIVE InitNodes(_, _)
\* for node in self.graph.nodes(): self._change_node_state(node, SUSCEPTIBLE)
InitNodes(G, order) ==
    IF order = <<>> THEN G
    ELSE InitNodes(_change_node_state(G, Head(order), SUSCEPTIBLE), Tail(order))

\* the graph a new ContactNetwork holds: a copy, tau = 0, every node SUSCEPTIBLE
\* (the edge weights are not looked at)
__init__(g) == InitNodes([CopyGraph(g) EXCEPT !.tau = 0], NodeOrder)

(***************************************************************************)
(* The seeding loop of model_contact_network, collect_statistics and       *)
(* get_animation_func.                                                     *)
(***************************************************************************)
\* a seeding that goes through the transition rule: only a SUSCEPTIBLE node
\* is infected (not what the code does)
SeedNodeBySusceptibility(S, node) ==
    IF node \notin Nodes
    THEN [S EXCEPT !.err = TRUE]
    ELSE IF _get_node_state(S.G, node) = SUSCEPTIBLE
         THEN [S EXCEPT !.G = _change_node_state(S.G, node, INFECTED)]
         ELSE S

\* one pass of the loop body; self.graph.nodes[node] raises KeyError for a
\* key that is no node of the graph
SeedNode(S, node) ==
    IF node \notin Nodes
    THEN [S EXCEPT !.err = TRUE]
    ELSE [S EXCEPT !.G = _change_node_state(S.G, node, INFECTED)]

RECURSIVE SeedLoop(_, _)
\* for node in infected_nodes: self._change_node_state(node, INFECTED)
\* the loop ends at the first KeyError, with what it has changed so far
SeedLoop(S, infected_nodes) ==
    IF infected_nodes = <<>> \/ S.err THEN S
    ELSE SeedLoop(SeedNode(S, Head(infected_nodes)), Tail(infected_nodes))

\* the graph after the seeding loop and whether it raised
Seeding(G, infected_nodes) == SeedLoop([G |-> G, err |-> FALSE], infected_nodes)

(***************************************************************************)
(* ContactNetwork._update                                                  *)
(***************************************************************************)
\* the nodes of a set as a list, in graph order
RECURSIVE ListOf(_, _)
ListOf(order, S) ==
    IF order = <<>> THEN <<>>
    ELSE IF Head(order) \in S THEN <<Head(order)>> \o ListOf(Tail(order), S)
    ELSE ListOf(Tail(order), S)

\* the neighbours of a susceptible node that are INFECTED or EXPOSED
InfectiousNeighbors(G, node) ==
    {n \in neighbors(G, node) :
        _get_node_state(G, n) = INFECTED \/ _get_node_state(G, n) = EXPOSED}

\* a variant without the complement: (1 - r)**(tau - t)
TSurvival(r, t, tau) == Fl(RPow(Fl(OneMinus(r)), tau - t))

\* a variant that counts the current step in the exponent
TInclusive(r, t, tau) == Fl(OneMinus(Fl(RPow(Fl(OneMinus(r)), tau - t + 1))))

\* T = lambda r, t: 1 - (1 - r)**(tau - t)
T(r, t, tau) == Fl(OneMinus(Fl(RPow(Fl(OneMinus(r)), tau - t))))

\* edges: the (weight, time_changed_state) pairs of the infectious neighbours
EdgeList(G, node) ==
    LET ns == ListOf(NodeOrder, InfectiousNeighbors(G, node))
    IN  [i \in 1..Len(ns) |-> <<G.weight[{node, ns[i]}], G.time_changed_state[ns[i]]>>]

\* self.graph[node][n]['weight'] raises KeyError when the edge has no weight
WeightMissing(G, node) ==
    \E n \in InfectiousNeighbors(G, node) : G.weight[{node, n}] = NoWeight

\* z = Prob.unionProbability([T(r,t) for (r,t) in edges])
Exposure(G, node, tau) ==
    CHOOSE z \in {unionProbability([i \in 1..Len(edges) |->
                                       T(edges[i][1], edges[i][2], tau)]) :
                  edges \in {EdgeList(G, node)}} : TRUE

\* a variant that also changes the node in self.graph at once
PutEager(S, node, state) ==
    [S EXCEPT !.G = _change_node_state(S.G, node, state),
              !.modified = [n \in DOMAIN S.modified \cup {node} |->
                               IF n = node THEN state ELSE S.modified[n]]]

\* modified_node_states[node] = state
Put(S, node, state) ==
    [S EXCEPT !.modified = [n \in DOMAIN S.modified \cup {node} |->
                               IF n = node THEN state ELSE S.modified[n]]]

\* a variant whose INFECTED node needs more elapsed time than the sample
ScanInfectedStrict(S, tau, node, sample) ==
    IF ~RLeq(FromInt(tau - S.G.time_changed_state[node]), sample)
    THEN Put(S, node, RECOVERED)
    ELSE S

\* the branch of an INFECTED node
ScanInfected(S, tau, node, sample) ==
    IF RGeq(FromInt(tau - S.G.time_changed_state[node]), sample)
    THEN Put(S, node, RECOVERED)
    ELSE S

\* a variant whose susceptible node skips EXPOSED
ScanSusceptibleToInfected(S, tau, node, sample) ==
    IF WeightMissing(S.G, node) THEN [S EXCEPT !.err = TRUE]
    ELSE IF RGeq(Exposure(S.G, node, tau), sample)
    THEN Put(S, node, INFECTED)
    ELSE S

\* a variant whose susceptible node needs z above the threshold
ScanSusceptibleStrict(S, tau, node, sample) ==
    IF WeightMissing(S.G, node) THEN [S EXCEPT !.err = TRUE]
    ELSE IF ~RLeq(Exposure(S.G, node, tau), sample)
    THEN Put(S, node, EXPOSED)
    ELSE S

\* the branch of a SUSCEPTIBLE node
ScanSusceptible(S, tau, node, sample) ==
    IF WeightMissing(S.G, node) THEN [S EXCEPT !.err = TRUE]
    ELSE IF RGeq(Exposure(S.G, node, tau), sample)
    THEN Put(S, node, EXPOSED)
    ELSE S

\* a variant that records an EXPOSED node in the dict whatever it decides
ScanExposedAlwaysPut(S, tau, node, sample) ==
    IF RGeq(FromInt(tau - S.G.time_changed_state[node]), sample)
    THEN Put(S, node, INFECTED)
    ELSE Put(S, node, EXPOSED)

\* the branch of an EXPOSED node
ScanExposed(S, tau, node, sample) ==
    IF RGeq(FromInt(tau - S.G.time_changed_state[node]), sample)
    THEN Put(S, node, INFECTED)
    ELSE S

\* the body of the scan loop for one node: the decision is written to
\* modified_node_states only, self.graph is left as it is
ScanNode(S, tau, node, sample) ==
    LET state == _get_node_state(S.G, node)
    IN  IF state = INFECTED THEN ScanInfected(S, tau, node, sample)
        ELSE IF state = SUSCEPTIBLE THEN ScanSusceptible(S, tau, node, sample)
        ELSE IF state = EXPOSED THEN ScanExposed(S, tau, node, sample)
        ELSE S

RECURSIVE Scan(_, _, _, _)
\* for node in self.graph.nodes(): ...   (an exception ends the loop)
Scan(S, tau, order, d) ==
    IF order = <<>> \/ S.err THEN S
    ELSE CHOOSE R \in {Scan(S1, tau, Tail(order), d) :
                         S1 \in {ScanNode(S, tau, Head(order), d[Head(order)])}} : TRUE

RECURSIVE ApplyModifications(_, _, _)
\* for node in modified_node_states: self._change_node_state(node, ...)
ApplyModifications(G, modified, order) ==
    IF order = <<>> THEN G
    ELSE CHOOSE R \in {ApplyModifications(G1, modified, Tail(order)) :
                         G1 \in {_change_node_state(G, Head(order),
                                                    modified[Head(order)])}} : TRUE

\* self.graph.graph["tau"] += 1
Tick(G) == [G EXCEPT !.tau = G.tau + 1]

\* a variant that advances tau before it applies the modifications
UpdateTickFirst(G, d, order) ==
    LET S == Scan([G |-> G, modified |-> <<>>, err |-> FALSE], G.tau, order, d)
    IN  IF S.err
        THEN [G |-> S.G, modified |-> <<>>, err |-> TRUE]
        ELSE [G |-> ApplyModifications(Tick(S.G), S.modified,
                                       ListOf(order, DOMAIN S.modified)),
              modified |-> S.modified, err |-> FALSE]

\* a variant that applies what the scan had decided when it raises
UpdateApplyOnError(G, d, order) ==
    LET S == Scan([G |-> G, modified |-> <<>>, err |-> FALSE], G.tau, order, d)
    IN  IF S.err
        THEN [G |-> ApplyModifications(S.G, S.modified,
                                       ListOf(order, DOMAIN S.modified)),
              modified |-> <<>>, err |-> TRUE]
        ELSE [G |-> Tick(ApplyModifications(S.G, S.modified,
                                            ListOf(order, DOMAIN S.modified))),
              modified |-> S.modified, err |-> FALSE]

\* _update() with the nodes scanned in the given order and the per-node
\* samples d: the graph afterwards, the returned dict, and whether it raised
UpdateInOrder(G, d, order) ==
    LET Return(S) ==
            IF S.err
            THEN [G |-> S.G, modified |-> <<>>, err |-> TRUE]
            ELSE [G |-> Tick(ApplyModifications(S.G, S.modified,
                                                ListOf(order, DOMAIN S.modified))),
                  modified |-> S.modified, err |-> FALSE]
    IN  CHOOSE R \in {Return(S) :
                S \in {Scan([G |-> G, modified |-> <<>>, err |-> FALSE],
                            G.tau, order, d)}} : TRUE

\* _update(): the nodes are scanned in graph order
_update(G, d) == UpdateInOrder(G, d, NodeOrder)

\* the samples a node can use in one _update(), by its state at the scan
SamplesOf(state) ==
    IF state = INFECTED THEN sampleRecoveryDistribution
    ELSE IF state = SUSCEPTIBLE THEN sampleExposureDistribution
    ELSE IF state = EXPOSED THEN sampleInfectionDistribution
    ELSE {NoSample}

\* the per-node samples one _update() of G can use
SampleSets(G) ==
    SamplesOf(G.state[1]) \X SamplesOf(G.state[2])

(***************************************************************************)
(* ContactNetwork.collect_statistics                                       *)
(***************************************************************************)
\* state_map: the row of a state in stats, counted from 1
state_map(state) ==
    IF state = EXPOSED THEN 1 ELSE IF state = INFECTED THEN 2 ELSE 3

\* stats = np.zeros([3, num_iterations+1]); stats[INFECTED][0] = len(infected_nodes)
\* (column t of the program is column t + 1 here)
InitStats(infected_nodes, num_iterations) ==
    [row \in 1..3 |-> [col \in 1..(num_iterations + 1) |->
        IF row = state_map(INFECTED) /\ col = 1 THEN Len(infected_nodes) ELSE 0]]

\* total_nodes_modified: how many nodes of the dict changed to each state
total_nodes_modified(modified) ==
    [row \in 1..3 |-> Cardinality({n \in DOMAIN modified : state_map(modified[n]) = row})]

\* the three assignments to column tau of stats
NextStats(stats, tau, modified) ==
    LET tnm == total_nodes_modified(modified)
        idx_e == state_map(EXPOSED)
        idx_i == state_map(INFECTED)
        idx_r == state_map(RECOVERED)
    IN  [stats EXCEPT
            ![idx_e][tau + 1] = stats[idx_e][tau] + tnm[idx_e] - tnm[idx_i],
            ![idx_i][tau + 1] = stats[idx_i][tau] + tnm[idx_i] - tnm[idx_r],
            ![idx_r][tau + 1] = stats[idx_r][tau] + tnm[idx_r]]

(***************************************************************************)
(* The state machine.                                                      *)
(***************************************************************************)
\* the lists a caller passes as infected_nodes
SeedLists == UNION {[1..k -> Keys] : k \in 0..MaxSeedLen}

NoOp == [name |-> "none", error |-> FALSE, stepped |-> FALSE, infected_nodes |-> <<>>]
NoCall == [start |-> 0, num_iterations |-> 0, tau |-> 0, stats |-> <<>>]
NoSamples == [n \in Nodes |-> NoSample]

\* nothing has been asked of Probability
NoAnswer == [done |-> FALSE, union |-> Zero, joint |-> Zero]

Init ==
    /\ orig \in EdgeMaps
    /\ origNodes = NoNodes
    /\ events = <<>>
    /\ answer = NoAnswer
    /\ built = FALSE
    /\ graph = NoGraph
    /\ pc = "idle"
    /\ cs = NoCall
    /\ op = NoOp
    /\ samples = NoSamples
    /\ ret = <<>>

\* cn = ContactNetwork(g)
Construct ==
    /\ ~built
    /\ built' = TRUE
    /\ graph' = __init__(orig)
    /\ op' = [NoOp EXCEPT !.name = "__init__"]
    /\ origNodes' = Written(graph', origNodes)
    /\ UNCHANGED <<orig, pc, cs, samples, ret, events, answer>>

\* the seeding of model_contact_network(infected_nodes, ...) and of
\* get_animation_func(infected_nodes, ...)
Seed ==
    /\ built /\ pc = "idle"
    /\ \E infected_nodes \in SeedLists :
         \E S \in {Seeding(graph, infected_nodes)} :
             /\ graph' = S.G
             /\ op' = [NoOp EXCEPT !.name = "seed", !.error = S.err,
                                   !.infected_nodes = infected_nodes]
    /\ samples' = NoSamples
    /\ ret' = <<>>
    /\ cs' = NoCall
    /\ origNodes' = Written(graph', origNodes)
    /\ UNCHANGED <<orig, built, pc, events, answer>>

\* self._update() called from outside collect_statistics, the distributions
\* returning the per-node samples d
UpdateCall(d) ==
    /\ \E U \in {_update(graph, d)} :
         /\ graph' = U.G
         /\ ret' = U.modified
         /\ op' = [NoOp EXCEPT !.name = "_update", !.error = U.err,
                               !.stepped = ~U.err]
         /\ samples' = d
    /\ cs' = NoCall
    /\ origNodes' = Written(graph', origNodes)
    /\ UNCHANGED <<orig, built, pc, events, answer>>

\* one _update(): animate(frame), or one pass of the loop of
\* model_contact_network
Step ==
    /\ built /\ pc = "idle"
    /\ graph.tau < MaxTau
    /\ \E d \in SampleSets(graph) : UpdateCall(d)

\* collect_statistics(infected_nodes, num_iterations) up to its loop: the
\* seeding and column 0 of stats; with num_iterations = 0 it returns stats
CollectStatistics ==
    /\ built /\ pc = "idle"
    /\ \E infected_nodes \in SeedLists, num_iterations \in 0..MaxIter :
         \E S \in {Seeding(graph, infected_nodes)} :
             /\ graph.tau + num_iterations <= MaxTau
             /\ graph' = S.G
             /\ op' = [NoOp EXCEPT !.name = "collect_statistics", !.error = S.err,
                                   !.infected_nodes = infected_nodes]
             /\ cs' = IF S.err THEN NoCall
                      ELSE [start |-> graph.tau, num_iterations |-> num_iterations,
                            tau |-> 0,
                            stats |-> InitStats(infected_nodes, num_iterations)]
             /\ pc' = IF S.err \/ num_iterations = 0 THEN "idle" ELSE "stats"
    /\ samples' = NoSamples
    /\ ret' = <<>>
    /\ origNodes' = Written(graph', origNodes)
    /\ UNCHANGED <<orig, built, events, answer>>

\* one pass of the loop of collect_statistics, for tau = cs.tau + 1; the last
\* pass returns stats, and an exception in _update() ends the call
CollectIterate ==
    /\ pc = "stats"
    /\ \E d \in SampleSets(graph) :
         \E U \in {_update(graph, d)}, tau \in {cs.tau + 1} :
             /\ graph' = U.G
             /\ ret' = U.modified
             /\ op' = [NoOp EXCEPT !.name = "collect_statistics", !.error = U.err,
                                   !.stepped = ~U.err]
             /\ cs' = IF U.err THEN NoCall
                      ELSE [cs EXCEPT !.tau = tau,
                                      !.stats = NextStats(cs.stats, tau, U.modified)]
             /\ pc' = IF U.err \/ tau = cs.num_iterations THEN "idle" ELSE "stats"
             /\ samples' = d
    /\ origNodes' = Written(graph', origNodes)
    /\ UNCHANGED <<orig, built, events, answer>>

Next ==
    \/ Construct
    \/ Seed
    \/ Step
    \/ CollectStatistics
    \/ CollectIterate

Spec == Init /\ [][Next]_vars

\* The simulator driven by construction, seeding and single steps alone.
\* collect_statistics changes self.graph only through the same seeding loop
\* and the same _update(), so this reaches every graph that Next reaches.
NextUpdate ==
    \/ Construct
    \/ Seed
    \/ Step

SpecUpdate == Init /\ [][NextUpdate]_vars

\* what the caller's graph can be after one change by the caller: another
\* weight on one edge, or a "state" attribute on one node
CallerChanges(weight, attrs) ==
    UNION {{[weight |-> [weight EXCEPT ![e] = w], nodes |-> attrs] :
              w \in Weights \ {weight[e]}} : e \in DOMAIN weight}
    \cup
    {[weight |-> weight,
      nodes |-> [attrs EXCEPT !.state =
                    [m \in DOMAIN attrs.state \cup {n} |-> RECOVERED]]] :
        n \in Nodes}

\* the caller changes the graph it handed to ContactNetwork(g), once; the
\* change lands in self.graph only if that is the caller's object
CallerChange ==
    /\ built /\ pc = "idle"
    /\ orig = graph.weight
    /\ origNodes = Written(graph, NoNodes)
    /\ \E C \in CallerChanges(orig, origNodes) :
         /\ orig' = C.weight
         /\ origNodes' = C.nodes
         /\ graph' = IF graph.own THEN graph
                     ELSE [graph EXCEPT !.weight = C.weight,
                                        !.state = C.nodes.state]
    /\ op' = [NoOp EXCEPT !.name = "caller"]
    /\ samples' = NoSamples
    /\ ret' = <<>>
    /\ cs' = NoCall
    /\ UNCHANGED <<built, pc, events, answer>>

\* The simulator next to a caller that keeps using its graph.
NextCaller ==
    \/ Construct
    \/ Seed
    \/ Step
    \/ CallerChange

SpecCaller == Init /\ [][NextCaller]_vars

(***************************************************************************)
(* A run whose duration samples are bounded: the caller seeds at tau 0 and *)
(* then keeps stepping for as long as a node is EXPOSED or INFECTED.       *)
(***************************************************************************)
\* values of np.random.normal(14, 1) within [dmin, dmax] = [1/2, 3/2]
BoundedRecoveryDraws == {<<1, 2>>, <<3, 2>>}
\* values of np.random.normal(9, 2) within [emin, emax] = [1, 3/2]
BoundedInfectionDraws == {<<1, 1>>, <<3, 2>>}

\* the samples a node can use in one _update() of such a run
BoundedSamplesOf(state) ==
    IF state = INFECTED THEN BoundedRecoveryDraws
    ELSE IF state = EXPOSED THEN BoundedInfectionDraws
    ELSE SamplesOf(state)

BoundedSampleSets(G) ==
    BoundedSamplesOf(G.state[1]) \X BoundedSamplesOf(G.state[2])

\* the nodes that are EXPOSED or INFECTED
Infectious(G) == {n \in DOMAIN G.state : G.state[n] \in {EXPOSED, INFECTED}}

\* the seeding before the first call of _update()
SeedFirst == graph.tau = 0 /\ op.name # "_update" /\ Seed

\* the caller steps again: there is a node EXPOSED or INFECTED
StepOn ==
    /\ built /\ pc = "idle"
    /\ Infectious(graph) # {}
    /\ \E d \in BoundedSampleSets(graph) : UpdateCall(d)

NextDwell ==
    \/ Construct
    \/ SeedFirst
    \/ StepOn

\* the caller keeps stepping: a step that stays possible is taken
SpecDwell == Init /\ [][NextDwell]_vars /\ WF_vars(StepOn)

(***************************************************************************)
(* Helper.Probability on its own: a caller hands a list of probabilities   *)
(* to unionProbability and to jointProbability.                            *)
(***************************************************************************)
\* the probabilities of the lists: floats in [0, 1]
Probabilities == {<<0, 1>>, <<1, 64>>, <<3, 8>>, <<1, 2>>, <<1, 1>>}
\* the lists e
EventLists == UNION {[1..k -> Probabilities] : k \in 0..MaxEvents}

\* a list e is at hand; no simulator is built
InitProbability ==
    /\ events \in EventLists
    /\ answer = NoAnswer
    /\ orig = <<>>
    /\ origNodes = NoNodes
    /\ built = FALSE
    /\ graph = NoGraph
    /\ pc = "idle"
    /\ cs = NoCall
    /\ op = NoOp
    /\ samples = NoSamples
    /\ ret = <<>>

\* Prob.unionProbability(e) and Prob.jointProbability(e)
ProbabilityCall ==
    /\ ~answer.done
    /\ answer' = [done |-> TRUE, union |-> unionProbability(events),
                  joint |-> jointProbability(events)]
    /\ UNCHANGED <<orig, origNodes, built, graph, pc, cs, op, samples, ret, events>>

SpecProbability == InitProbability /\ [][ProbabilityCall]_vars

(***************************************************************************)
(* Properties of one step.  A step is a transition with op'.stepped: the   *)
(* unprimed graph is the graph at the start of the step, samples' are the  *)
(* samples the step used and ret' is the dict it returned.                 *)
(***************************************************************************)
\* every order in which the nodes can be scanned
Orders ==
    {o \in [1..Cardinality(Nodes) -> Nodes] : \A n \in Nodes : \E i \in DOMAIN o : o[i] = n}

\* the decision the scan takes for one node when it sees graph G alone
DecisionOn(G, node, sample) ==
    ScanNode([G |-> G, modified |-> <<>>, err |-> FALSE], G.tau, node, sample).modified

\* C1: snapshot isolation.  In every step each node's decision is the one
\* taken from the graph as it was when the step began, and the graph and
\* the returned dict are the same for every order of scanning the nodes
\* with the same per-node samples.
C1_SnapshotIsolation ==
    [][op'.stepped =>
        /\ \A n \in Nodes :
              LET dec == DecisionOn(graph, n, samples'[n])
              IN  /\ (n \in DOMAIN ret') = (n \in DOMAIN dec)
                  /\ n \in DOMAIN dec => ret'[n] = dec[n]
        /\ \A o \in Orders :
              LET U == UpdateInOrder(graph, samples', o)
              IN  ~U.err /\ U.G = graph' /\ U.modified = ret']_vars

\* C1 witness: a step in which both ends of an edge transition, the
\* susceptible end on the strength of a neighbour that recovers in that step
C1_Witness ==
    /\ op.stepped
    /\ DOMAIN ret = Nodes
    /\ ret[1] = RECOVERED /\ ret[2] = EXPOSED
    /\ ~REq(samples[2], Zero)

\* the state changes one step may make
StepMoves == {<<SUSCEPTIBLE, EXPOSED>>, <<EXPOSED, INFECTED>>, <<INFECTED, RECOVERED>>}

\* the nodes of a list
Range(l) == {l[i] : i \in DOMAIN l}

\* C2: state monotonicity.  A step changes a node's state only from
\* SUSCEPTIBLE to EXPOSED, from EXPOSED to INFECTED or from INFECTED to
\* RECOVERED, so no step moves a node out of RECOVERED; outside a step the
\* only change of a constructed simulator is seeding a listed node INFECTED.
C2_StateMonotonicity ==
    [][built =>
        \A n \in Nodes :
            \/ graph'.state[n] = graph.state[n]
            \/ op'.stepped /\ <<graph.state[n], graph'.state[n]>> \in StepMoves
            \/ ~op'.stepped /\ graph'.state[n] = INFECTED
                            /\ n \in Range(op'.infected_nodes)]_vars

\* C2 witness: a step that leaves a RECOVERED node alone while its
\* neighbour moves from EXPOSED to INFECTED
C2_Witness ==
    /\ op.stepped
    /\ graph.state[1] = RECOVERED /\ 1 \notin DOMAIN ret
    /\ 2 \in DOMAIN ret /\ ret[2] = INFECTED

\* C3: clock monotonicity.  Every completed step increases tau by exactly
\* 1, and every node that transitions in it gets time_changed_state equal
\* to the tau the step began with.
C3_ClockMonotonicity ==
    [][op'.stepped =>
        /\ graph'.tau = graph.tau + 1
        /\ \A n \in DOMAIN ret' : graph'.time_changed_state[n] = graph.tau]_vars

\* C3 witness: a completed step at tau = 1 in which a node transitioned
C3_Witness ==
    /\ op.stepped
    /\ graph.tau = 2
    /\ \E n \in DOMAIN ret : graph.time_changed_state[n] = 1

\* C4: the dict a step returns holds exactly the nodes whose state the
\* step changed, each with its new state; every other node keeps its state
\* and its time_changed_state.
C4_ReturnedMapIsTheChange ==
    [][op'.stepped =>
        /\ DOMAIN ret' = {n \in Nodes : graph'.state[n] # graph.state[n]}
        /\ \A n \in DOMAIN ret' : ret'[n] = graph'.state[n]
        /\ \A n \in Nodes \ DOMAIN ret' :
              /\ graph'.state[n] = graph.state[n]
              /\ graph'.time_changed_state[n] = graph.time_changed_state[n]]_vars

\* C4 witness: a step that changed one node and left an EXPOSED node, whose
\* time_changed_state is older than the step, out of the dict
C4_Witness ==
    /\ op.stepped
    /\ DOMAIN ret = {1}
    /\ graph.state[2] = EXPOSED
    /\ graph.time_changed_state[2] + 1 < graph.tau

\* C5: a SUSCEPTIBLE node with no INFECTED or EXPOSED neighbour when a step
\* begins is still SUSCEPTIBLE after the step, whatever threshold in [0, 1]
\* the step sampled for it.
C5_NoExposureWithoutInfectiousNeighbour ==
    [][op'.stepped =>
        \A n \in Nodes :
            (graph.state[n] = SUSCEPTIBLE /\ InfectiousNeighbors(graph, n) = {})
                => graph'.state[n] = SUSCEPTIBLE]_vars

(***************************************************************************)
(* Properties of collect_statistics.  The call has returned its matrix     *)
(* when op names it without an error and pc is back to "idle".             *)
(***************************************************************************)
StatsRunning == op.name = "collect_statistics" /\ ~op.error
StatsReturned == StatsRunning /\ pc = "idle"

\* column t of stats, for t in 0..num_iterations, as (E, I, R)
Column(stats, t) == <<stats[1][t + 1], stats[2][t + 1], stats[3][t + 1]>>

\* how many nodes of G are in a state
CountOf(G, state) == Cardinality({n \in Nodes : G.state[n] = state})

\* the numbers of EXPOSED, INFECTED and RECOVERED nodes of G
Counts(G) == <<CountOf(G, EXPOSED), CountOf(G, INFECTED), CountOf(G, RECOVERED)>>

\* C6: statistics conservation.  In the matrix collect_statistics returns,
\* every column has E + I + R <= the number of nodes and E, I, R >= 0.
C6_StatisticsConservation ==
    StatsReturned =>
        \A t \in 0..cs.num_iterations :
            LET c == Column(cs.stats, t)
            IN  /\ c[1] + c[2] + c[3] <= Cardinality(Nodes)
                /\ c[1] >= 0 /\ c[2] >= 0 /\ c[3] >= 0

\* C7: collect_statistics(infected_nodes, N) performs exactly N steps and
\* column t of its matrix is the number of nodes that are EXPOSED, INFECTED
\* and RECOVERED after t steps: after each pass of the loop the column just
\* written agrees with the simulator, column 0 has no EXPOSED and no
\* RECOVERED node, and the call returns after N steps.
C7_StatisticsMatchSimulator ==
    StatsRunning =>
        /\ Column(cs.stats, cs.tau) = Counts(graph)
        /\ Column(cs.stats, 0)[1] = 0 /\ Column(cs.stats, 0)[3] = 0
        /\ graph.tau = cs.start + cs.tau
        /\ pc = "idle" => cs.tau = cs.num_iterations

\* C8: a seeding loop whose list holds a key that is no node of the graph
\* raises an error and has changed no node when it does.
C8_SeedingDoesNotPartiallySeed ==
    [][(built /\ pc = "idle" /\ ~op'.stepped /\ op'.name \in {"seed", "collect_statistics"}) =>
        /\ op'.error = (UnknownNode \in Range(op'.infected_nodes))
        /\ op'.error => graph' = graph]_vars

\* C9: constructing a ContactNetwork from a graph with an edge that has no
\* weight fails before any node state or tau is set, so no simulator exists
\* for such a graph.
C9_ConstructionRejectsMissingWeight ==
    (\E e \in DOMAIN orig : orig[e] = NoWeight) => (~built /\ graph = NoGraph)

\* C10: in every state of a constructed simulator, whatever construction,
\* seeding calls and steps led to it, every node has one state and one
\* time_changed_state, and time_changed_state <= tau.
C10_NodeAttributesWellFormed ==
    built =>
        /\ DOMAIN graph.state = Nodes
        /\ DOMAIN graph.time_changed_state = Nodes
        /\ \A n \in Nodes :
              /\ graph.state[n] \in {SUSCEPTIBLE, INFECTED, RECOVERED, EXPOSED}
              /\ graph.time_changed_state[n] \in 0..graph.tau

\* C10 witness: a node seeded again after steps were taken, next to a node
\* whose last change is older
C10_Witness ==
    /\ op.name = "seed" /\ ~op.error
    /\ graph.tau >= 2
    /\ \E n \in Range(op.infected_nodes) : graph.time_changed_state[n] = graph.tau
    /\ \E n \in Nodes : graph.state[n] = RECOVERED /\ graph.time_changed_state[n] = 1

(***************************************************************************)
(* Construction and seeding.                                               *)
(***************************************************************************)
\* C11: after construction every node is SUSCEPTIBLE with time_changed_state
\* 0 and tau is 0; a seeding loop that runs to its end leaves every node of
\* the list INFECTED with time_changed_state equal to the current tau; whether
\* it runs to its end or not, it draws no sample, leaves tau alone and leaves
\* every node outside the list as it was.
C11_ConstructionAndSeeding ==
    [][/\ op'.name = "__init__" =>
            /\ graph'.tau = 0
            /\ \A n \in Nodes :
                  /\ graph'.state[n] = SUSCEPTIBLE
                  /\ graph'.time_changed_state[n] = 0
       /\ (op'.name \in {"seed", "collect_statistics"} /\ ~op'.stepped) =>
            /\ graph'.tau = graph.tau
            /\ graph'.weight = graph.weight
            /\ samples' = NoSamples
            /\ \A n \in Nodes \ Range(op'.infected_nodes) :
                  /\ graph'.state[n] = graph.state[n]
                  /\ graph'.time_changed_state[n] = graph.time_changed_state[n]
            /\ ~op'.error =>
                  \A n \in Range(op'.infected_nodes) :
                      /\ graph'.state[n] = INFECTED
                      /\ graph'.time_changed_state[n] = graph.tau]_vars

\* a seeding after two steps has made a node that had recovered INFECTED again,
\* stamped with the current tau, and has left the other node alone
C11_Witness ==
    /\ op.name = "seed" /\ ~op.error
    /\ graph.tau = 2
    /\ \E n \in Nodes :
          /\ Range(op.infected_nodes) = {n}
          /\ graph.state[n] = INFECTED
          /\ graph.time_changed_state[n] = 2
          /\ \E m \in Nodes \ {n} :
                /\ graph.state[m] = RECOVERED
                /\ graph.time_changed_state[m] < 2

(***************************************************************************)
(* The graph is the simulator's own.                                       *)
(***************************************************************************)
\* C12: construction, seeding and stepping leave the caller's graph as it
\* was (edges, weights, node and graph attributes) and keep the node set,
\* the edge set and the weights of self.graph, which are those the caller's
\* graph had at construction; a change the caller makes to its graph
\* afterwards changes nothing in self.graph.
C12_GraphIsOwnCopy ==
    [][built' =>
        /\ op'.name # "caller" => (orig' = orig /\ origNodes' = origNodes)
        /\ graph'.weight = (IF built THEN graph.weight ELSE orig)
        /\ DOMAIN graph'.state = Nodes
        /\ op'.name = "caller" => graph' = graph]_vars

\* the caller raised the weight of the edge to 1 after construction, and a
\* later step still weighed the edge with 1/2: with the neighbour INFECTED
\* for one step and the threshold 1, the node stayed SUSCEPTIBLE
C12_Witness ==
    /\ op.name = "_update" /\ op.stepped
    /\ graph.tau = 2
    /\ \E n \in Nodes, m \in Nodes :
          /\ n # m
          /\ orig = [e \in {{n, m}} |-> One]
          /\ graph.weight = [e \in {{n, m}} |-> <<1, 2>>]
          /\ graph.state[n] = SUSCEPTIBLE
          /\ samples[n] = One
          /\ graph.state[m] = INFECTED
          /\ graph.time_changed_state[m] = 0

(***************************************************************************)
(* Scenarios of one step.                                                  *)
(***************************************************************************)
\* C13: a step whose recovery sample for an INFECTED node is 0 makes the node
\* RECOVERED, however short it has been INFECTED, the step right after it
\* became INFECTED included.
C13_ZeroRecoverySample ==
    [][op'.stepped =>
        \A n \in Nodes :
            (graph.state[n] = INFECTED /\ REq(samples'[n], Zero)) =>
                /\ graph'.state[n] = RECOVERED
                /\ n \in DOMAIN ret' /\ ret'[n] = RECOVERED
                /\ graph'.time_changed_state[n] = graph.tau]_vars

\* the first step after a seeding at tau 0 made the seeded node RECOVERED with
\* the sample 0: it had been INFECTED for no step at all
C13_Witness ==
    /\ op.name = "_update" /\ op.stepped
    /\ graph.tau = 1
    /\ \E n \in Nodes :
          /\ n \in DOMAIN ret /\ ret[n] = RECOVERED
          /\ samples[n] = Zero
          /\ graph.state[n] = RECOVERED
          /\ graph.time_changed_state[n] = 0

\* C14: on the graph of two nodes joined by an edge of weight 1, with a
\* seeded INFECTED at tau 0 and b SUSCEPTIBLE, the first step with the
\* threshold sample 0 for b makes b EXPOSED.
C14_TwoNodeScenario ==
    [][op'.stepped =>
        \A a \in Nodes, b \in Nodes :
            (/\ a # b
             /\ graph.weight = [e \in {{a, b}} |-> One]
             /\ graph.tau = 0
             /\ graph.state[a] = INFECTED /\ graph.time_changed_state[a] = 0
             /\ graph.state[b] = SUSCEPTIBLE
             /\ REq(samples'[b], Zero)) =>
                /\ graph'.state[b] = EXPOSED
                /\ b \in DOMAIN ret' /\ ret'[b] = EXPOSED
                /\ graph'.time_changed_state[b] = 0
                /\ graph'.tau = 1]_vars

\* after the first step of that scenario b is EXPOSED since tau 0 and a, whose
\* recovery sample was 14, is still INFECTED
C14_Witness ==
    /\ op.name = "_update" /\ op.stepped
    /\ graph.tau = 1
    /\ \E a \in Nodes, b \in Nodes :
          /\ a # b
          /\ graph.weight = [e \in {{a, b}} |-> One]
          /\ graph.state[a] = INFECTED /\ graph.time_changed_state[a] = 0
          /\ samples[a] = <<14, 1>>
          /\ samples[b] = Zero
          /\ ret = [n \in {b} |-> EXPOSED]
          /\ graph.state[b] = EXPOSED /\ graph.time_changed_state[b] = 0

(***************************************************************************)
(* Helper.Probability.                                                     *)
(***************************************************************************)
\* every arrangement of a list
Arrangements(e) ==
    {[i \in DOMAIN e |-> e[f[i]]] :
        f \in {g \in [DOMAIN e -> DOMAIN e] : \A i \in DOMAIN e : \E j \in DOMAIN e : g[j] = i}}

RECURSIVE ExactProduct(_)
\* the product of a list of rationals, unrounded
ExactProduct(e) ==
    IF e = <<>> THEN One ELSE Reduce(RMul(Head(e), ExactProduct(Tail(e))))

\* 1 - (1 - e[1]) * ... * (1 - e[n]), unrounded
ExactUnion(e) == Reduce(OneMinus(ExactProduct([i \in DOMAIN e |-> OneMinus(e[i])])))

\* the numerator of the dyadic rational a on the denominator D
Over(a, D) == a[1] * (D \div a[2])
\* the larger of two denominators
Common(a, b) == IF a[2] >= b[2] THEN a[2] ELSE b[2]
\* a <= b and a = b for dyadic rationals, on their common denominator
DLeq(a, b) == Over(a, Common(a, b)) <= Over(b, Common(a, b))
DEq(a, b) == Over(a, Common(a, b)) = Over(b, Common(a, b))
\* |a - b| <= c for dyadic rationals, on their common denominator
WithinOf(a, b, c) ==
    LET D == IF Common(a, b) >= c[2] THEN Common(a, b) ELSE c[2]
    IN  /\ Over(a, D) - Over(b, D) <= Over(c, D)
        /\ Over(b, D) - Over(a, D) <= Over(c, D)

\* the rounding error unionProbability can make on a list of n floats
Tolerance(n) == <<n, IPow(2, MantissaBits)>>

\* C15: for a non-empty list e of probabilities unionProbability(e) is at
\* least every element and at most 1, is p for the list [p], is the same for
\* every arrangement of e and equals 1 - jointProbability([1 - x for x in e]);
\* for the empty list unionProbability is 0 and jointProbability is 1.
C15_UnionProbability ==
    answer.done =>
        /\ events # <<>> =>
              /\ \A i \in DOMAIN events : RGeq(answer.union, events[i])
              /\ RLeq(answer.union, One)
              /\ Len(events) = 1 => REq(answer.union, events[1])
              /\ \A p \in Arrangements(events) :
                    REq(unionProbability(p), answer.union)
              /\ REq(answer.union,
                     Fl(OneMinus(jointProbability(
                         [i \in DOMAIN events |-> Fl(OneMinus(events[i]))]))))
        /\ events = <<>> => (REq(answer.union, Zero) /\ REq(answer.joint, One))

\* C15, amended: unionProbability(e) is in [0, 1], is what the floats give
\* for 1 - jointProbability([1 - x for x in e]), and differs by at most
\* Len(e) * 2^-MantissaBits from the exact 1 - (1 - e[1]) ... (1 - e[n]);
\* that exact value is at least every element and at most 1, is p for [p]
\* and is the same for every arrangement, and so is unionProbability(e)
\* itself when no operation rounds; for the empty list unionProbability is 0
\* and jointProbability is 1.
C15_UnionProbabilityRounded ==
    answer.done =>
        /\ RGeq(answer.union, Zero) /\ RLeq(answer.union, One)
        /\ REq(answer.union,
               Fl(OneMinus(jointProbability(
                   [i \in DOMAIN events |-> Fl(OneMinus(events[i]))]))))
        /\ WithinOf(answer.union, ExactUnion(events), Tolerance(Len(events)))
        /\ \A p \in Arrangements(events) :
              /\ DEq(ExactUnion(p), ExactUnion(events))
              /\ WithinOf(unionProbability(p), ExactUnion(events),
                          Tolerance(Len(events)))
        /\ events # <<>> =>
              /\ \A i \in DOMAIN events : DLeq(events[i], ExactUnion(events))
              /\ DLeq(ExactUnion(events), One)
              /\ Len(events) = 1 => DEq(ExactUnion(events), events[1])
        /\ events = <<>> => (REq(answer.union, Zero) /\ REq(answer.joint, One))

\* unionProbability has answered for a list of two whose product of
\* complements, 5/8 * 5/8 = 25/64, is no float: the answer 5/8 is off the
\* exact 39/64
C15_Witness ==
    /\ answer.done
    /\ events = << <<3, 8>>, <<3, 8>> >>
    /\ ~DEq(answer.union, ExactUnion(events))

(***************************************************************************)
(* The exponent of T.                                                      *)
(***************************************************************************)
\* the edges with a weight that join a node to an EXPOSED or INFECTED
\* neighbour, as <<node, neighbour>>
InfectiousEdges(G) ==
    {p \in Nodes \X Nodes :
        /\ p[2] \in InfectiousNeighbors(G, p[1])
        /\ G.weight[{p[1], p[2]}] # NoWeight}

\* T for the neighbour p[2] of p[1] in a step that starts with graph G
TOf(G, p) == T(G.weight[{p[1], p[2]}], G.time_changed_state[p[2]], G.tau)

\* C16: tau - t counts the steps the neighbour has been EXPOSED or INFECTED,
\* so across a step in which the node stays SUSCEPTIBLE and the neighbour
\* stays EXPOSED or INFECTED (it may turn from EXPOSED to INFECTED) the
\* neighbour's T for the next step is at least its T for this step.
C16_ExposureNeverDecreases ==
    [][op'.stepped =>
        \A p \in InfectiousEdges(graph) \cap InfectiousEdges(graph') :
            (graph.state[p[1]] = SUSCEPTIBLE /\ graph'.state[p[1]] = SUSCEPTIBLE) =>
                RGeq(TOf(graph', p), TOf(graph, p))]_vars

\* C16, amended: tau - t counts the steps since the neighbour entered the
\* state it is in.  It is never negative; across a step in which the
\* neighbour keeps its state it grows by one and T does not decrease; across
\* a step in which the neighbour turns from EXPOSED to INFECTED it restarts,
\* at 1 for the next step, whatever it was.
C16_ExposureSinceStateChange ==
    [][op'.stepped =>
        \A p \in InfectiousEdges(graph) :
            LET m == p[2]
                k == graph.tau - graph.time_changed_state[m]
                k2 == graph'.tau - graph'.time_changed_state[m]
            IN  /\ k >= 0
                /\ graph'.state[m] = graph.state[m] =>
                      /\ k2 = k + 1
                      /\ RGeq(TOf(graph', p), TOf(graph, p))
                /\ (graph.state[m] = EXPOSED /\ graph'.state[m] = INFECTED) =>
                      k2 = 1]_vars

\* a neighbour that was EXPOSED for two steps has turned INFECTED: on the
\* edge of weight 1/2 to a node still SUSCEPTIBLE its T was 3/4 in this
\* step and is 1/2 in the next
C16_Witness ==
    /\ op.name = "_update" /\ op.stepped
    /\ graph.tau = 3
    /\ \E p \in InfectiousEdges(graph) :
          /\ graph.state[p[1]] = SUSCEPTIBLE
          /\ graph.weight[{p[1], p[2]}] = <<1, 2>>
          /\ ret = [n \in {p[2]} |-> INFECTED]
          /\ samples[p[2]] = <<3, 2>>
          /\ REq(TOf(graph, p), <<1, 2>>)

(***************************************************************************)
(* Exposure at the ends of the threshold's range.                          *)
(***************************************************************************)
\* C17: a step makes a SUSCEPTIBLE node EXPOSED, whatever threshold it
\* draws, when the node has an edge of weight 1 to a neighbour that has been
\* EXPOSED or INFECTED for at least one step.
C17_CertainExposure ==
    [][op'.stepped =>
        \A n \in Nodes :
            (/\ graph.state[n] = SUSCEPTIBLE
             /\ \E m \in InfectiousNeighbors(graph, n) :
                   /\ graph.weight[{n, m}] = One
                   /\ graph.tau - graph.time_changed_state[m] >= 1) =>
                /\ graph'.state[n] = EXPOSED
                /\ n \in DOMAIN ret' /\ ret'[n] = EXPOSED]_vars

\* a node became EXPOSED in the second step with the largest threshold, 1,
\* beside a neighbour INFECTED since tau 0 on an edge of weight 1
C17_Witness ==
    /\ op.name = "_update" /\ op.stepped
    /\ graph.tau = 2
    /\ \E n \in Nodes, m \in Nodes :
          /\ n # m
          /\ graph.weight = [e \in {{n, m}} |-> One]
          /\ samples[n] = One
          /\ ret = [x \in {n} |-> EXPOSED]
          /\ graph.state[m] = INFECTED /\ graph.time_changed_state[m] = 0

\* C19: in a step whose tau is the time_changed_state of every EXPOSED or
\* INFECTED neighbour of a SUSCEPTIBLE node, every such neighbour's T is 0
\* whatever the weight of its edge, z is 0, and the node becomes EXPOSED
\* exactly if its threshold sample is 0.
C19_FreshNeighboursExposeOnlyAtZero ==
    [][op'.stepped =>
        \A n \in Nodes :
            (/\ graph.state[n] = SUSCEPTIBLE
             /\ InfectiousNeighbors(graph, n) # {}
             /\ \A m \in InfectiousNeighbors(graph, n) :
                   graph.time_changed_state[m] = graph.tau) =>
                /\ \A m \in InfectiousNeighbors(graph, n) :
                      REq(TOf(graph, <<n, m>>), Zero)
                /\ REq(Exposure(graph, n, graph.tau), Zero)
                /\ graph'.state[n] = EXPOSED <=> REq(samples'[n], Zero)
                /\ graph'.state[n] \in {EXPOSED, SUSCEPTIBLE}]_vars

\* the first step after a seeding at tau 0 left the node SUSCEPTIBLE with the
\* threshold 1/2, although its edge to the seeded neighbour has weight 1
C19_Witness ==
    /\ op.name = "_update" /\ op.stepped
    /\ graph.tau = 1
    /\ \E n \in Nodes, m \in Nodes :
          /\ n # m
          /\ graph.weight = [e \in {{n, m}} |-> One]
          /\ graph.state[n] = SUSCEPTIBLE
          /\ samples[n] = <<1, 2>>
          /\ graph.state[m] = INFECTED /\ graph.time_changed_state[m] = 0
          /\ ret = <<>>

(***************************************************************************)
(* A step that raises.                                                     *)
(***************************************************************************)
\* C20: an _update() that raises during its scan leaves self.graph as it
\* was: every state, every time_changed_state and tau.
C20_FailedStepChangesNothing ==
    [][(/\ op'.error
        /\ \/ op'.name = "_update"
           \/ op'.name = "collect_statistics" /\ pc = "stats") =>
        (graph' = graph /\ ret' = <<>>)]_vars

\* an _update() has raised on the edge without weight at the second node
\* after it had decided, with the sample 0, that the first node recovers:
\* the first node is still INFECTED and tau is still 0
C20_Witness ==
    /\ op.name = "_update" /\ op.error
    /\ graph.tau = 0
    /\ graph.weight = [e \in {{1, 2}} |-> NoWeight]
    /\ graph.state[NodeOrder[1]] = INFECTED
    /\ samples[NodeOrder[1]] = Zero
    /\ graph.state[NodeOrder[2]] = SUSCEPTIBLE

(***************************************************************************)
(* Dwell times.                                                            *)
(***************************************************************************)
\* the least and the greatest of a set of rationals
Least(S) == CHOOSE x \in S : \A y \in S : RLeq(x, y)
Greatest(S) == CHOOSE x \in S : \A y \in S : RGeq(x, y)
\* ceil(a) for a >= 0
Ceil(a) == (a[1] + a[2] - 1) \div a[2]

\* a node in state from, with elapsed time below lo, is still in from after
\* the step; with elapsed time ceil(hi) or more it is in state to after it
Dwells(from, to, lo, hi) ==
    \A n \in Nodes :
        graph.state[n] = from =>
            LET elapsed == graph.tau - graph.time_changed_state[n]
            IN  /\ ~RGeq(FromInt(elapsed), lo) => graph'.state[n] = from
                /\ elapsed >= Ceil(hi) => graph'.state[n] = to

\* C18: with every recovery sample in [dmin, dmax] and every incubation
\* sample in [emin, emax], a node INFECTED since k is still INFECTED after a
\* step with tau < k + dmin and RECOVERED after the step with tau =
\* k + ceil(dmax), an EXPOSED node likewise with emin and emax becomes
\* INFECTED, and when the caller keeps stepping every node that is EXPOSED or
\* INFECTED is RECOVERED at some later time.
C18_BoundedDwellTime ==
    /\ [][op'.stepped =>
            /\ Dwells(INFECTED, RECOVERED, Least(BoundedRecoveryDraws),
                      Greatest(BoundedRecoveryDraws))
            /\ Dwells(EXPOSED, INFECTED, Least(BoundedInfectionDraws),
                      Greatest(BoundedInfectionDraws))]_vars
    /\ \A n \in Nodes :
          (n \in Infectious(graph)) ~> (built /\ graph.state[n] = RECOVERED)

====
